---- MODULE Spec2Model ----
(***************************************************************************)
(* Model of frame/system/src/offchain.rs: the Signer selector (ForAll /    *)
(* ForAny), the signing capability, and the signed / unsigned submission   *)
(* paths with their nonce bookkeeping.                                     *)
(*                                                                         *)
(* One behaviour is one off-chain worker pass: a sequence of selector      *)
(* calls on a Signer, between which the key-holder's registered keys may   *)
(* change.  A selector call is stepped account by account; the key-holder, *)
(* the transaction-construction hook, the extrinsic constructor and the    *)
(* inclusion queue are external collaborators, the last three answering    *)
(* nondeterministically.                                                   *)
(***************************************************************************)
EXTENDS Naturals, Sequences, FiniteSets

\* ------------------------------------------------------------------ bounds
MaxFilterLen == 2      \* longest list handed to with_filter
MaxCalls == 2          \* selector calls in one worker pass
MaxSubmissions == 2    \* submit_signed_transaction calls of one concurrent pass
MaxExchanges == 2      \* calls made on one signer backend

\* ------------------------------------------------------------- value sets
RawKeys == {"A", "B"}                \* generic (crypto-level) public keys
Msgs == {"m1", "m2"}                      \* messages / call data of the caller

\* Option<T>: None is the empty sequence, Some(x) the one-element sequence.
None == <<>>
Some(x) == <<x>>
\* Result<(), ()>
Ok == "Ok"
Err == "Err"

Range(s) == {s[i] : i \in 1..Len(s)}

\* <T::Public as AppPublic>::Generic::from(key): unwraps the app-specific key.
Generic_from(key) == key[2]
\* generic_public.into(): wraps a generic key into T::Public.
Public_from(generic) == <<"app", generic>>
\* T::Public values
Keys == {Public_from(r) : r \in RawKeys}
\* IdentifyAccount::into_account: the address derived from a public key.
into_account(public) == <<"id", Generic_from(public)>>
AccountIds == {into_account(k) : k \in Keys}

\* Account::new
Account_new(index, id, public) == [index |-> index, id |-> id, public |-> public]

\* All sequences over S of length at most n.
RECURSIVE SeqsUpTo(_, _)
SeqsUpTo(S, n) ==
  IF n = 0 THEN {<<>>}
  ELSE LET shorter == SeqsUpTo(S, n - 1)
       IN shorter \cup {Append(s, x) : s \in {t \in shorter : Len(t) = n - 1}, x \in S}

Filters == SeqsUpTo(Keys, MaxFilterLen)
OpNames == {"sign_message", "sign", "send_signed_transaction", "send_unsigned_transaction"}

VARIABLES
  keystore,   \* keys registered with the key-holder, in its enumeration order
  signer,     \* the Signer value: [kind: ForAll/ForAny, accounts: Option<Vec<Public>>]
  nonce,      \* crate::Account: account id -> stored nonce (in-memory overlay)
  start,      \* nonce at the start of the pass
  used,       \* account id -> nonces carried by the accepted signed transactions, in order
  ncalls,     \* selector calls made so far in this pass
  pc,         \* "idle" | "running" | "done"
  op,         \* the capability method being run: [name, msg]
  enum,       \* the keys the running call enumerates
  pos,        \* 0-based index of the next key of enum
  results,    \* for_all: the (account, result) pairs collected so far
  attempts,   \* one record per application of the operation in this call
  handoffs,   \* the calls of sp_io::offchain::submit_transaction made by this call
  entry,      \* the account store when this call began
  ret,        \* the value the call returned (when pc = "done")
  prev,       \* what the previous call on this Signer value enumerated
  refiltered, \* with_filter was applied to a Signer value that already had a filter
  workers,    \* concurrent passes: each worker's place in submit_signed_transaction
  backend,    \* the key-holder backend in use: LocalSigner or RemoteSigner
  exchange    \* the calls made on the backend and what came of each, in order

vars == <<keystore, signer, nonce, start, used, ncalls, pc, op, enum, pos,
          results, attempts, handoffs, entry, ret, prev, refiltered,
          workers, backend, exchange>>
otherVars == <<workers, backend, exchange>>
envVars == <<keystore>>
passVars == <<nonce, start, used>>
callVars == <<op, enum, pos, results, attempts, handoffs, entry, ret>>

\* --------------------------------------------------- external collaborators
\* Option::map
OptionMap(F(_), o) == IF o = None THEN None ELSE Some(F(o[1]))

\* codec::Encode: the deterministic encoding of a value.
Encode(x) == <<"enc", x>>
Decode(bytes) == bytes[2]

\* <T::Public as RuntimeAppPublic>::all(): the keys registered with the key-holder.
RuntimeAppPublic_all == keystore

\* <T::Public as RuntimeAppPublic>::sign: the key-holder signs when it holds the key.
RuntimeAppPublic_sign(public, payload) ==
  IF public \in Range(keystore)
  THEN Some([signer |-> Generic_from(public), over |-> payload])
  ELSE None

\* <T::Public as RuntimeAppPublic>::verify
RuntimeAppPublic_verify(public, payload, signature) ==
  /\ signature.signer = Generic_from(public)
  /\ signature.over = payload

\* T::Signature: From / Into <T::Public as RuntimeAppPublic>::Signature
Signature_from(x) == <<"sig", x>>
Signature_into(sig) == sig[2]

\* LocalCall -> OverarchingCall (call.into())
Call_into(call) == [outer |-> "Runtime", inner |-> call]

\* T::create_transaction: the runtime's transaction-construction hook.  When it
\* does not decline it returns the call and a signature payload naming the
\* signer and carrying the nonce it was given.
create_transaction(call, public, account, n, hookOk) ==
  IF hookOk
  THEN Some(<<call, [signer |-> account, public |-> public, nonce |-> n]>>)
  ELSE None

\* T::Extrinsic::new
Extrinsic_new(call, signature, xtOk) ==
  IF xtOk THEN Some([call |-> call, signature |-> signature]) ELSE None

\* sp_io::offchain::submit_transaction: the inclusion queue's submit.
sp_io_submit_transaction(queue, bytes, poolOk) ==
  [res |-> IF poolOk THEN Ok ELSE Err,
   queue |-> Append(queue, [bytes |-> bytes, accepted |-> poolOk])]

\* SubmitTransaction::submit_transaction handing the extrinsic to the queue a
\* second time when the first hand-off was not accepted.
submit_transaction_retry(call, signature, queue, xtOk, poolOk) ==
  LET xt == Extrinsic_new(call, signature, xtOk)
  IN IF xt = None
     THEN [res |-> Err, queue |-> queue]
     ELSE LET first == sp_io_submit_transaction(queue, Encode(xt[1]), poolOk)
          IN IF first.res = Ok
             THEN first
             ELSE sp_io_submit_transaction(first.queue, Encode(xt[1]), poolOk)

\* ---------------------------------------------------------- offchain.rs
\* SubmitTransaction::submit_transaction
submit_transaction(call, signature, queue, xtOk, poolOk) ==
  LET xt == Extrinsic_new(call, signature, xtOk)
  IN IF xt = None
     THEN [res |-> Err, queue |-> queue]
     ELSE sp_io_submit_transaction(queue, Encode(xt[1]), poolOk)

\* SubmitTransaction::submit_unsigned_transaction
SubmitTransaction_submit_unsigned_transaction(call, queue, xtOk, poolOk) ==
  submit_transaction(call, None, queue, xtOk, poolOk)

\* SigningTypes::sign signing the encoding of the message instead of the message.
SigningTypes_sign_encoded(payload, public) ==
  OptionMap(Signature_from, RuntimeAppPublic_sign(public, Encode(payload)))

\* SigningTypes::sign
SigningTypes_sign(payload, public) ==
  OptionMap(Signature_from, RuntimeAppPublic_sign(public, payload))

\* SigningTypes::verify
SigningTypes_verify(payload, public, signature) ==
  RuntimeAppPublic_verify(public, payload, Signature_into(signature))

\* SignedPayload::public of the payloads the caller builds
SignedPayload_public(payload) == payload.public

\* SignedPayload::sign signing the encoding of the payload without its data.
SignedPayload_sign_no_data(payload) ==
  OptionMap(Signature_from,
            RuntimeAppPublic_sign(SignedPayload_public(payload),
                                  Encode([payload EXCEPT !.data = ""])))

\* SignedPayload::sign
SignedPayload_sign(payload) ==
  OptionMap(Signature_from,
            RuntimeAppPublic_sign(SignedPayload_public(payload), Encode(payload)))

\* SignedPayload::verify
SignedPayload_verify(payload, signature) ==
  RuntimeAppPublic_verify(SignedPayload_public(payload), Encode(payload),
                          Signature_into(signature))

\* submit_signed_transaction with the nonce stored whatever the queue answered.
submit_signed_transaction_always_inc(account, call, store, queue, hookOk, xtOk, poolOk) ==
  LET account_data == [nonce |-> store[account.id]]
      created == create_transaction(Call_into(call), account.public, account.id,
                                    account_data.nonce, hookOk)
  IN IF created = None
     THEN [res |-> None, store |-> store, queue |-> queue]
     ELSE LET sub == submit_transaction(created[1][1], Some(created[1][2]),
                                        queue, xtOk, poolOk)
          IN [res |-> Some(sub.res),
              store |-> [store EXCEPT ![account.id] = account_data.nonce + 1],
              queue |-> sub.queue]

\* submit_signed_transaction with the incremented nonce never written back.
submit_signed_transaction_no_insert(account, call, store, queue, hookOk, xtOk, poolOk) ==
  LET account_data == [nonce |-> store[account.id]]
      created == create_transaction(Call_into(call), account.public, account.id,
                                    account_data.nonce, hookOk)
  IN IF created = None
     THEN [res |-> None, store |-> store, queue |-> queue]
     ELSE LET sub == submit_transaction(created[1][1], Some(created[1][2]),
                                        queue, xtOk, poolOk)
          IN [res |-> Some(sub.res), store |-> store, queue |-> sub.queue]

\* submit_signed_transaction reporting a declined construction as a failure.
submit_signed_transaction_decline_err(account, call, store, queue, hookOk, xtOk, poolOk) ==
  LET account_data == [nonce |-> store[account.id]]
      created == create_transaction(Call_into(call), account.public, account.id,
                                    account_data.nonce, hookOk)
  IN IF created = None
     THEN [res |-> Some(Err), store |-> store, queue |-> queue]
     ELSE LET sub == submit_transaction(created[1][1], Some(created[1][2]),
                                        queue, xtOk, poolOk)
          IN [res |-> Some(sub.res),
              store |-> IF sub.res = Ok
                        THEN [store EXCEPT ![account.id] = account_data.nonce + 1]
                        ELSE store,
              queue |-> sub.queue]

\* submit_signed_transaction advancing the stored nonce of every account.
submit_signed_transaction_bump_all(account, call, store, queue, hookOk, xtOk, poolOk) ==
  LET account_data == [nonce |-> store[account.id]]
      created == create_transaction(Call_into(call), account.public, account.id,
                                    account_data.nonce, hookOk)
  IN IF created = None
     THEN [res |-> None, store |-> store, queue |-> queue]
     ELSE LET sub == submit_transaction(created[1][1], Some(created[1][2]),
                                        queue, xtOk, poolOk)
          IN [res |-> Some(sub.res),
              store |-> IF sub.res = Ok
                        THEN [id \in DOMAIN store |-> store[id] + 1]
                        ELSE store,
              queue |-> sub.queue]

\* SendSignedTransaction::submit_signed_transaction
\* store is crate::Account (id -> nonce), queue the inclusion queue's call log.
submit_signed_transaction(account, call, store, queue, hookOk, xtOk, poolOk) ==
  LET account_data == [nonce |-> store[account.id]]
      created == create_transaction(Call_into(call), account.public, account.id,
                                    account_data.nonce, hookOk)
  IN IF created = None
     THEN [res |-> None, store |-> store, queue |-> queue]
     ELSE LET sub == submit_transaction(created[1][1], Some(created[1][2]),
                                        queue, xtOk, poolOk)
          IN [res |-> Some(sub.res),
              store |-> IF sub.res = Ok
                        THEN [store EXCEPT ![account.id] = account_data.nonce + 1]
                        ELSE store,
              queue |-> sub.queue]

\* SendUnsignedTransaction::submit_unsigned_transaction
submit_unsigned_transaction(call, queue, xtOk, poolOk) ==
  LET sub == SubmitTransaction_submit_unsigned_transaction(Call_into(call), queue, xtOk, poolOk)
  IN [res |-> Some(sub.res), queue |-> sub.queue]

\* The closures the caller hands to the capability methods.
\* send_signed_transaction's f: the call built for an account.
call_builder(account, msg) == [data |-> msg, sender |-> account.index]
\* sign's / send_unsigned_transaction's f: the payload built for an account.
payload_builder(account, msg) == [public |-> account.public, data |-> msg]
\* send_unsigned_transaction's f2: the call carrying the payload and its signature.
unsigned_call_builder(payload, signature) == [payload |-> payload, signature |-> signature]

\* The per-account operation each capability method hands to for_all / for_any:
\* the result it yields and the account store and inclusion queue it leaves.
\* SignMessage::sign_message
sign_message_op(account, msg, store, queue) ==
  [res |-> SigningTypes_sign(msg, account.public), store |-> store, queue |-> queue]

\* SignMessage::sign
sign_op(account, msg, store, queue) ==
  [res |-> SignedPayload_sign(payload_builder(account, msg)), store |-> store, queue |-> queue]

\* SendSignedTransaction::send_signed_transaction
send_signed_op(account, msg, store, queue, hookOk, xtOk, poolOk) ==
  LET call == call_builder(account, msg)
  IN submit_signed_transaction(account, call, store, queue, hookOk, xtOk, poolOk)

\* send_unsigned_transaction advancing the nonce on an accepted hand-off, as the
\* signed path does.
send_unsigned_op_bump(account, msg, store, queue, xtOk, poolOk) ==
  LET payload == payload_builder(account, msg)
      signature == SignedPayload_sign(payload)
  IN IF signature = None
     THEN [res |-> None, store |-> store, queue |-> queue]
     ELSE LET call == unsigned_call_builder(payload, signature[1])
              sub == submit_unsigned_transaction(call, queue, xtOk, poolOk)
          IN [res |-> sub.res,
              store |-> IF sub.res = Some(Ok)
                        THEN [store EXCEPT ![account.id] = @ + 1]
                        ELSE store,
              queue |-> sub.queue]

\* send_unsigned_transaction with unwrap_or_default() in place of the `?` on
\* payload.sign(): the call is built and handed off whether or not a signature
\* was produced.
send_unsigned_op_unchecked(account, msg, store, queue, xtOk, poolOk) ==
  LET payload == payload_builder(account, msg)
      signed == SignedPayload_sign(payload)
      signature == IF signed = None
                   THEN Signature_from([signer |-> "", over |-> <<>>])
                   ELSE signed[1]
      call == unsigned_call_builder(payload, signature)
      sub == submit_unsigned_transaction(call, queue, xtOk, poolOk)
  IN [res |-> sub.res, store |-> store, queue |-> sub.queue]

\* SendUnsignedTransaction::send_unsigned_transaction
send_unsigned_op(account, msg, store, queue, xtOk, poolOk) ==
  LET payload == payload_builder(account, msg)
      signature == SignedPayload_sign(payload)
  IN IF signature = None
     THEN [res |-> None, store |-> store, queue |-> queue]
     ELSE LET call == unsigned_call_builder(payload, signature[1])
              sub == submit_unsigned_transaction(call, queue, xtOk, poolOk)
          IN [res |-> sub.res, store |-> store, queue |-> sub.queue]

\* The operation of the running call applied to one account.
operation(account, env) ==
  CASE op.name = "sign_message" -> sign_message_op(account, op.msg, nonce, handoffs)
    [] op.name = "sign" -> sign_op(account, op.msg, nonce, handoffs)
    [] op.name = "send_signed_transaction" ->
         send_signed_op(account, op.msg, nonce, handoffs, env.hookOk, env.xtOk, env.poolOk)
    [] op.name = "send_unsigned_transaction" ->
         send_unsigned_op(account, op.msg, nonce, handoffs, env.xtOk, env.poolOk)

\* The answers the external collaborators can give during one application of
\* the operation; a collaborator the method never consults answers TRUE.
AllOk == [hookOk |-> TRUE, xtOk |-> TRUE, poolOk |-> TRUE]
Envs(name) ==
  {AllOk}
  \cup (IF name \in {"send_signed_transaction", "send_unsigned_transaction"}
        THEN {[AllOk EXCEPT !.xtOk = FALSE], [AllOk EXCEPT !.poolOk = FALSE]}
        ELSE {})
  \cup (IF name = "send_signed_transaction"
        THEN {[AllOk EXCEPT !.hookOk = FALSE]}
        ELSE {})

\* The messages / call data the caller passes to a capability method.
MsgsOf(name) == IF name \in {"sign_message", "sign"} THEN Msgs ELSE {"m1"}

\* Signer::default (all_accounts / any_account)
Signer_default(kind) == [kind |-> kind, accounts |-> None]

\* with_filter adding the new list to the one already in place.
with_filter_extend(self, accounts) ==
  [self EXCEPT !.accounts =
     IF self.accounts # None THEN Some(self.accounts[1] \o accounts) ELSE Some(accounts)]

\* Signer::with_filter
with_filter(self, accounts) == [self EXCEPT !.accounts = Some(accounts)]

\* The enumeration taken from the key-holder even when a filter was supplied.
enumeration_ignores_filter(self) == RuntimeAppPublic_all

\* The enumeration kept from the previous call on the same Signer value.
enumeration_cached(self) ==
  IF self.accounts # None
  THEN self.accounts[1]
  ELSE IF prev # None THEN prev[1] ELSE RuntimeAppPublic_all

\* for_all / for_any: the keys a selector call enumerates.
enumeration(self) ==
  IF self.accounts # None THEN self.accounts[1] ELSE RuntimeAppPublic_all

\* for_all / for_any numbering the accounts from one.
enum_account_one_based(self, index, key) ==
  Account_new(index + 1, into_account(key), key)

\* for_all / for_any: the Account built for the key at a 0-based index.
enum_account(self, index, key) ==
  IF self.accounts # None
  THEN LET account_id == into_account(key)
       IN Account_new(index, account_id, key)
  ELSE LET generic_public == Generic_from(key)
           public == Public_from(generic_public)
           account_id == into_account(public)
       IN Account_new(index, account_id, public)

\* for_all keeping only the first result (find_map instead of filter_map).
for_all_keep_first(collected, account, res) ==
  IF res = None \/ collected # <<>> THEN collected ELSE Append(collected, <<account, res[1]>>)

\* for_all's filter_map body: keep (account, res) when the operation yields a result.
for_all_keep(collected, account, res) ==
  IF res = None THEN collected ELSE Append(collected, <<account, res[1]>>)

\* for_any treating a failed hand-off like "no result" and moving on.
for_any_return_skip_err(account, res) ==
  IF res = None \/ res = Some(Err) THEN None ELSE Some(<<account, res[1]>>)

\* for_any without the early return.
for_any_return_never(account, res) == None

\* for_any's loop body: return (account, res) when the operation yields a result.
for_any_return(account, res) ==
  IF res = None THEN None ELSE Some(<<account, res[1]>>)

\* The nonces carried by the signed transactions the queue accepted, per signer.
accepted_nonces(queue, id) ==
  LET idxs == {i \in 1..Len(queue) :
                 /\ queue[i].accepted
                 /\ Decode(queue[i].bytes).signature # None
                 /\ Decode(queue[i].bytes).signature[1].signer = id}
      RECURSIVE take(_)
      take(i) == IF i > Len(queue) THEN <<>>
                 ELSE IF i \in idxs
                      THEN <<Decode(queue[i].bytes).signature[1].nonce>> \o take(i + 1)
                      ELSE take(i + 1)
  IN take(1)

\* The record of one application of the operation.
attempt(account, env, out) ==
  [account |-> account, env |-> env, res |-> out.res,
   before |-> nonce[account.id], after |-> out.store[account.id],
   changed |-> {id \in AccountIds : out.store[id] # nonce[id]},
   h0 |-> Len(handoffs), h1 |-> Len(out.queue)]

\* ---------------------------------------------------------------- state
\* The nonce each account has on chain when the pass starts (one per account,
\* all different).
StartNonce(id) == IF id = into_account(Public_from("A")) THEN 0 ELSE 1

NoOp == [name |-> "none", msg |-> "none"]
\* No call has been made on the Signer value yet.
NoPrev == None

\* The concurrent passes: none is running.
Workers == {1, 2}
IdleWorker(n) == [pc |-> "idle", done |-> n]
NoWorkers == [w \in Workers |-> IdleWorker(0)]

\* The key-holder backend before any call on it.
LocalBackend == [type |-> "local"]
NoExchange == <<>>

Init ==
  /\ keystore = <<>>
  /\ signer \in {Signer_default("ForAll"), Signer_default("ForAny")}
  /\ nonce = [a \in AccountIds |-> StartNonce(a)]
  /\ start = nonce
  /\ used = [a \in AccountIds |-> <<>>]
  /\ ncalls = 0
  /\ pc = "idle"
  /\ op = NoOp
  /\ enum = <<>>
  /\ pos = 0
  /\ results = <<>>
  /\ attempts = <<>>
  /\ handoffs = <<>>
  /\ entry = nonce
  /\ ret = <<>>
  /\ prev = NoPrev
  /\ refiltered = FALSE
  /\ workers = NoWorkers
  /\ backend = LocalBackend
  /\ exchange = NoExchange

\* The key-holder registers a key (appended to its enumeration).
AddKey(k) ==
  /\ pc = "idle"
  /\ k \notin Range(keystore)
  /\ keystore' = Append(keystore, k)
  /\ UNCHANGED <<signer, refiltered, passVars, ncalls, pc, callVars, prev, otherVars>>

\* The key-holder drops a key.
RemoveKey(k) ==
  /\ pc = "idle"
  /\ k \in Range(keystore)
  /\ keystore' = SelectSeq(keystore, LAMBDA x : x # k)
  /\ UNCHANGED <<signer, refiltered, passVars, ncalls, pc, callVars, prev, otherVars>>

\* Signer::all_accounts / Signer::any_account
NewSigner(kind) ==
  /\ pc = "idle"
  /\ signer' = Signer_default(kind)
  /\ signer' # signer
  /\ prev' = NoPrev
  /\ refiltered' = FALSE
  /\ UNCHANGED <<envVars, passVars, ncalls, pc, callVars, otherVars>>

\* Signer::with_filter
WithFilter(accounts) ==
  /\ pc = "idle"
  /\ signer' = with_filter(signer, accounts)
  /\ signer' # signer
  /\ prev' = NoPrev
  /\ UNCHANGED <<envVars, passVars, ncalls, pc, callVars, otherVars>>

\* A capability method is called on the signer: for_all / for_any starts.
BeginCall(name, msg) ==
  /\ pc = "idle"
  /\ ncalls < MaxCalls
  /\ ncalls' = ncalls + 1
  /\ pc' = "running"
  /\ op' = [name |-> name, msg |-> msg]
  /\ enum' = enumeration(signer)
  /\ pos' = 0
  /\ results' = <<>>
  /\ attempts' = <<>>
  /\ handoffs' = <<>>
  /\ entry' = nonce
  /\ ret' = <<>>
  /\ UNCHANGED <<envVars, signer, refiltered, passVars, prev, otherVars>>

\* The effect of applying the operation to the account at pos.
Apply(account, env, out) ==
  /\ nonce' = out.store
  /\ handoffs' = out.queue
  /\ attempts' = Append(attempts, attempt(account, env, out))
  /\ used' = [a \in AccountIds |->
                used[a] \o SubSeq(accepted_nonces(out.queue, a),
                                  Len(accepted_nonces(handoffs, a)) + 1,
                                  Len(accepted_nonces(out.queue, a)))]
  /\ UNCHANGED <<envVars, signer, refiltered, start, ncalls, op, enum, entry, prev, otherVars>>

\* Signer<T, ForAll>::for_all: one iteration of the filter_map.
ForAllStep(env) ==
  /\ pc = "running"
  /\ signer.kind = "ForAll"
  /\ pos < Len(enum)
  /\ LET account == enum_account(signer, pos, enum[pos + 1])
         out == operation(account, env)
     IN /\ Apply(account, env, out)
        /\ results' = for_all_keep(results, account, out.res)
  /\ pos' = pos + 1
  /\ UNCHANGED <<pc, ret>>

\* Signer<T, ForAll>::for_all: collect() at the end of the enumeration.
ForAllCollect ==
  /\ pc = "running"
  /\ signer.kind = "ForAll"
  /\ pos = Len(enum)
  /\ pc' = "done"
  /\ ret' = results
  /\ UNCHANGED <<envVars, signer, refiltered, passVars, ncalls, op, enum, pos, results, attempts,
                 handoffs, entry, prev, otherVars>>

\* Signer<T, ForAny>::for_any: one iteration of the loop.
ForAnyStep(env) ==
  /\ pc = "running"
  /\ signer.kind = "ForAny"
  /\ pos < Len(enum)
  /\ LET account == enum_account(signer, pos, enum[pos + 1])
         out == operation(account, env)
         found == for_any_return(account, out.res)
     IN /\ Apply(account, env, out)
        /\ IF found # None
           THEN pc' = "done" /\ ret' = found /\ pos' = pos
           ELSE pc' = pc /\ ret' = ret /\ pos' = pos + 1
  /\ UNCHANGED results

\* for_any that gives up before the enumeration is exhausted.
ForAnyNone_early ==
  /\ pc = "running"
  /\ signer.kind = "ForAny"
  /\ pos <= Len(enum)
  /\ pc' = "done"
  /\ ret' = None
  /\ UNCHANGED <<envVars, signer, refiltered, passVars, ncalls, op, enum, pos, results, attempts,
                 handoffs, entry, prev, otherVars>>

\* Signer<T, ForAny>::for_any: the trailing None.
ForAnyNone ==
  /\ pc = "running"
  /\ signer.kind = "ForAny"
  /\ pos = Len(enum)
  /\ pc' = "done"
  /\ ret' = None
  /\ UNCHANGED <<envVars, signer, refiltered, passVars, ncalls, op, enum, pos, results, attempts,
                 handoffs, entry, prev, otherVars>>

\* The caller takes the returned value; the call's locals are dropped.
Return ==
  /\ pc = "done"
  /\ pc' = "idle"
  /\ op' = NoOp
  /\ enum' = <<>>
  /\ pos' = 0
  /\ results' = <<>>
  /\ attempts' = <<>>
  /\ handoffs' = <<>>
  /\ entry' = nonce
  /\ ret' = <<>>
  /\ prev' = Some(enum)
  /\ UNCHANGED <<envVars, signer, refiltered, passVars, ncalls, otherVars>>

\* Every step of a pass but with_filter.
NextButFilter ==
  \/ \E k \in Keys : AddKey(k)
  \/ \E k \in Keys : RemoveKey(k)
  \/ \E kind \in {"ForAll", "ForAny"} : NewSigner(kind)
  \/ \E name \in OpNames : \E msg \in MsgsOf(name) : BeginCall(name, msg)
  \/ \E env \in Envs(op.name) : ForAllStep(env)
  \/ ForAllCollect
  \/ \E env \in Envs(op.name) : ForAnyStep(env)
  \/ ForAnyNone
  \/ Return

Next ==
  \/ \E accounts \in Filters : WithFilter(accounts) /\ UNCHANGED refiltered
  \/ NextButFilter

Spec == Init /\ [][Next]_vars

\* The same pass, remembering whether the filter in place replaced an earlier
\* one on the same Signer value.
NextFilter ==
  \/ \E accounts \in Filters :
       WithFilter(accounts) /\ refiltered' = (signer.accounts # None)
  \/ NextButFilter

SpecFilter == Init /\ [][NextFilter]_vars

TypeOK ==
  /\ Range(keystore) \subseteq Keys
  /\ signer.kind \in {"ForAll", "ForAny"}
  /\ nonce \in [AccountIds -> Nat]
  /\ pc \in {"idle", "running", "done"}
  /\ pos \in 0..Len(enum)
  /\ prev = None \/ Range(prev[1]) \subseteq Keys
  /\ \A w \in Workers :
       /\ workers[w].pc \in {"idle", "got", "created", "submitted"}
       /\ workers[w].done \in 0..MaxSubmissions
  /\ backend.type \in {"local", "remote"}
  /\ Len(exchange) <= MaxExchanges

\* ---------------------------------------------------------- signers.rs
\* Key types (primitives/core/src/testing.rs) and the values of a backend call.
ED25519 == "ed25"
SR25519 == "sr25"
KeyTypes == {ED25519, SR25519}
\* The (host, port) pairs a remote signer is configured with.
Configs == {[host |-> "127.0.0.1", port |-> 50051], [host |-> "10.0.0.1", port |-> 9000]}
Responses == {"r1", "r2"}

\* Result<_, BareCryptoStoreError> values, and a panic of the calling thread.
OkOf(value) == [tag |-> "Ok", value |-> value]
ErrOf(error) == [tag |-> "Err", error |-> error]
Panic == [tag |-> "panic"]
Unavailable == "Unavailable"

\* What the network can do to one sign_with of the remote signer: the
\* connection fails (no call is made), the call fails with a gRPC status, or
\* the service answers with response bytes.
NoReply == [tag |-> "Err", error |-> "NotCalled"]
NetOutcomes ==
  {[connected |-> FALSE, reply |-> NoReply]}
  \cup {[connected |-> TRUE, reply |-> ErrOf("Status")]}
  \cup {[connected |-> TRUE, reply |-> OkOf(r)] : r \in Responses}

\* The address of a gRPC endpoint, "http://<host>:<port>".
Endpoint(host, port) == [scheme |-> "http", host |-> host, port |-> port]

\* The key-holder's own sign_with: a signature when it holds the key under the
\* key type (its keys are registered as Ed25519 keys), unavailable otherwise.
Store_sign_with(id, key, msg) ==
  IF id = ED25519 /\ Public_from(key) \in Range(keystore)
  THEN OkOf([signer |-> key, over |-> msg])
  ELSE ErrOf(Unavailable)

\* The key-holder's own supported_keys: the keys it holds under the key type.
Store_supported_keys(id) ==
  OkOf(IF id = ED25519
       THEN [i \in 1..Len(keystore) |-> Generic_from(keystore[i])]
       ELSE <<>>)

\* LocalSigner::sign_with
LocalSigner_sign_with(self, id, key, msg) ==
  [call |-> "sign_with", on |-> "local", id |-> id, key |-> key, msg |-> msg,
   passed |-> [id |-> id, key |-> key, msg |-> msg],
   res |-> Store_sign_with(id, key, msg)]

\* LocalSigner::supported_keys
LocalSigner_supported_keys(self, id) ==
  [call |-> "supported_keys", on |-> "local", id |-> id,
   res |-> Store_supported_keys(id)]

\* RemoteSigner::new
RemoteSigner_new(host, port) == [type |-> "remote", host |-> host, port |-> port]

\* RemoteSigner::sign_with aborting when the service cannot be reached.
RemoteSigner_sign_with_unwrap(self, id, key, msg, net) ==
  LET endpoint == Endpoint("127.0.0.1", 50051)
      request == [message |-> "Tonic"]
      sent == [call |-> "sign_with", on |-> "remote", id |-> id, key |-> key,
               msg |-> msg, net |-> net, endpoint |-> endpoint,
               request |-> None, res |-> Panic]
  IN IF ~net.connected
     THEN sent
     ELSE IF net.reply.tag # "Ok"
          THEN [sent EXCEPT !.request = Some(request), !.res = ErrOf(Unavailable)]
          ELSE [sent EXCEPT !.request = Some(request), !.res = OkOf(net.reply.value)]

\* RemoteSigner::sign_with.  net is what the network does: whether
\* SignerClient::connect succeeds and, if so, what client.sign returns.
RemoteSigner_sign_with(self, id, key, msg, net) ==
  LET endpoint == Endpoint("127.0.0.1", 50051)
      request == [message |-> "Tonic"]
      sent == [call |-> "sign_with", on |-> "remote", id |-> id, key |-> key,
               msg |-> msg, net |-> net, endpoint |-> endpoint,
               request |-> None, res |-> Panic]
  IN IF ~net.connected
     THEN [sent EXCEPT !.res = ErrOf(Unavailable)]
     ELSE IF net.reply.tag # "Ok"
          THEN [sent EXCEPT !.request = Some(request), !.res = ErrOf(Unavailable)]
          ELSE [sent EXCEPT !.request = Some(request), !.res = OkOf(net.reply.value)]

\* RemoteSigner::supported_keys: todo!()
RemoteSigner_supported_keys(self, id) ==
  [call |-> "supported_keys", on |-> "remote", id |-> id, res |-> Panic]

\* A call on the backend panicked: the calling thread is gone.
Panicked == \E i \in 1..Len(exchange) : exchange[i].res = Panic

InitRemote == Init

\* LocalSigner::new
NewLocalSigner ==
  /\ ~Panicked
  /\ backend # LocalBackend
  /\ backend' = LocalBackend
  /\ exchange' = NoExchange
  /\ UNCHANGED <<keystore, signer, refiltered, passVars, ncalls, pc, callVars, prev, workers>>

\* RemoteSigner::new(host, port)
NewRemoteSigner(host, port) ==
  /\ ~Panicked
  /\ backend # RemoteSigner_new(host, port)
  /\ backend' = RemoteSigner_new(host, port)
  /\ exchange' = NoExchange
  /\ UNCHANGED <<keystore, signer, refiltered, passVars, ncalls, pc, callVars, prev, workers>>

\* The outcome of a call is appended to the backend's record of calls.
Exchange(outcome) ==
  /\ ~Panicked
  /\ Len(exchange) < MaxExchanges
  /\ exchange' = Append(exchange, outcome)
  /\ UNCHANGED <<keystore, signer, refiltered, passVars, ncalls, pc, callVars, prev, workers, backend>>

\* Signer::sign_with on the backend in use
LocalSignWith(id, key, msg) ==
  /\ backend.type = "local"
  /\ Exchange(LocalSigner_sign_with(backend, id, key, msg))

RemoteSignWith(id, key, msg, net) ==
  /\ backend.type = "remote"
  /\ Exchange(RemoteSigner_sign_with(backend, id, key, msg, net))

\* Signer::supported_keys on the backend in use
LocalSupportedKeys(id) ==
  /\ backend.type = "local"
  /\ Exchange(LocalSigner_supported_keys(backend, id))

RemoteSupportedKeys(id) ==
  /\ backend.type = "remote"
  /\ Exchange(RemoteSigner_supported_keys(backend, id))

NextRemote ==
  \/ \E k \in Keys : ~Panicked /\ AddKey(k)
  \/ \E k \in Keys : ~Panicked /\ RemoveKey(k)
  \/ NewLocalSigner
  \/ \E c \in Configs : NewRemoteSigner(c.host, c.port)
  \/ \E id \in KeyTypes : \E key \in RawKeys : \E msg \in Msgs : LocalSignWith(id, key, msg)
  \/ \E id \in KeyTypes : \E key \in RawKeys : \E msg \in Msgs :
       \E net \in NetOutcomes : RemoteSignWith(id, key, msg, net)
  \/ \E id \in KeyTypes : LocalSupportedKeys(id)
  \/ \E id \in KeyTypes : RemoteSupportedKeys(id)

SpecRemote == InitRemote /\ [][NextRemote]_vars

\* ------------------------------------------------- concurrent passes
\* Two worker passes run submit_signed_transaction against the same account
\* store (crate::Account) and the same inclusion queue.  The function holds no
\* lock: the read of the stored nonce, the hand-off and the write of the
\* incremented nonce are separate steps, and the steps of the two passes
\* interleave.
InitConc == Init

\* let mut account_data = crate::Account::<T>::get(&account.id);
Get(w, key) ==
  /\ workers[w].pc = "idle"
  /\ workers[w].done < MaxSubmissions
  /\ LET account == Account_new(0, into_account(key), key)
         account_data == [nonce |-> nonce[account.id]]
     IN workers' = [workers EXCEPT ![w] =
                      [pc |-> "got", done |-> workers[w].done,
                       account |-> account, account_data |-> account_data]]
  /\ UNCHANGED <<keystore, signer, refiltered, nonce, start, used, ncalls, pc, callVars, prev,
                 backend, exchange>>

\* let (call, signature) = T::create_transaction(..)?;
Create(w, hookOk) ==
  /\ workers[w].pc = "got"
  /\ LET me == workers[w]
         created == create_transaction(Call_into(call_builder(me.account, "m1")),
                                       me.account.public, me.account.id,
                                       me.account_data.nonce, hookOk)
     IN workers' = [workers EXCEPT ![w] =
                      IF created = None
                      THEN IdleWorker(me.done + 1)
                      ELSE [pc |-> "created", done |-> me.done,
                            account |-> me.account, account_data |-> me.account_data,
                            created |-> created[1]]]
  /\ UNCHANGED <<keystore, signer, refiltered, nonce, start, used, ncalls, pc, callVars, prev,
                 backend, exchange>>

\* let res = SubmitTransaction::submit_transaction(call, Some(signature));
Submit(w, xtOk, poolOk) ==
  /\ workers[w].pc = "created"
  /\ LET me == workers[w]
         sub == submit_transaction(me.created[1], Some(me.created[2]),
                                   handoffs, xtOk, poolOk)
     IN /\ handoffs' = sub.queue
        /\ workers' = [workers EXCEPT ![w] =
                         [pc |-> "submitted", done |-> me.done,
                          account |-> me.account, account_data |-> me.account_data,
                          res |-> sub.res]]
  /\ UNCHANGED <<keystore, signer, refiltered, nonce, start, used, ncalls, pc, op, enum, pos,
                 results, attempts, entry, ret, prev, backend, exchange>>

\* if res.is_ok() { account_data.nonce += 1; Account::insert(..) }  Some(res)
Insert(w) ==
  /\ workers[w].pc = "submitted"
  /\ LET me == workers[w]
     IN /\ nonce' = IF me.res = Ok
                    THEN [nonce EXCEPT ![me.account.id] = me.account_data.nonce + 1]
                    ELSE nonce
        /\ workers' = [workers EXCEPT ![w] = IdleWorker(me.done + 1)]
  /\ UNCHANGED <<keystore, signer, refiltered, start, used, ncalls, pc, callVars, prev,
                 backend, exchange>>

NextConc ==
  \/ \E w \in Workers : \E key \in Keys : Get(w, key)
  \/ \E w \in Workers : \E hookOk \in BOOLEAN : Create(w, hookOk)
  \/ \E w \in Workers : \E xtOk, poolOk \in BOOLEAN : Submit(w, xtOk, poolOk)
  \/ \E w \in Workers : Insert(w)

SpecConc == InitConc /\ [][NextConc]_vars

\* C11: when two passes run submit_signed_transaction concurrently against the
\* same account store, no two transactions the inclusion queue accepted for
\* the same account carry the same nonce, and no increment is lost: once no
\* submission is in progress, each account's stored nonce is its starting
\* nonce plus the number of its accepted transactions.
C11_AtomicNonce ==
  \A a \in AccountIds :
    LET ns == accepted_nonces(handoffs, a)
    IN /\ \A i, j \in 1..Len(ns) : i # j => ns[i] # ns[j]
       /\ (\A w \in Workers : workers[w].pc = "idle") =>
            nonce[a] = start[a] + Len(ns)

\* ---------------------------------------------------------------- claims
Signed == op.name = "send_signed_transaction"
Unsigned == op.name = "send_unsigned_transaction"

\* The i-th application of the operation handed something to the queue.
HandedOff(i) == attempts[i].h1 > attempts[i].h0
\* The hand-off made by the i-th application, and the extrinsic it carried.
HandOffOf(i) == handoffs[attempts[i].h1]
ExtrinsicOf(i) == Decode(HandOffOf(i).bytes)

\* C1: for every account, the nonces carried by the signed transactions the
\* inclusion queue accepted during the pass are start, start+1, ..., in
\* submission order, without repeats or gaps, and the stored nonce is start
\* plus their number; the same key may occur more than once in a selection.
C1_NonceSequence ==
  \A a \in AccountIds :
    /\ used[a] = [i \in 1..Len(used[a]) |-> start[a] + i - 1]
    /\ nonce[a] = start[a] + Len(used[a])

\* C1 witness: one call enumerated the same key twice and the queue accepted
\* both signed transactions.
C1_Witness ==
  /\ pc = "done"
  /\ Signed
  /\ Len(enum) = 2
  /\ enum[1] = enum[2]
  /\ Len(handoffs) = 2
  /\ handoffs[1].accepted
  /\ handoffs[2].accepted

\* C2: when the inclusion queue rejects the hand-off of a signed submission,
\* the account's result is Some(Err), not None, the stored nonce of the account
\* (and of every other account) is what it was before the attempt, and the next
\* signed transaction handed off for that account carries the same nonce.
C2_RejectedHandOff ==
  \A i \in 1..Len(attempts) :
    (Signed /\ HandedOff(i) /\ ~HandOffOf(i).accepted) =>
      /\ attempts[i].res = Some(Err)
      /\ attempts[i].res # None
      /\ attempts[i].after = attempts[i].before
      /\ attempts[i].changed = {}
      /\ \A j \in (i + 1)..Len(attempts) :
           ( /\ attempts[j].account.id = attempts[i].account.id
             /\ HandedOff(j)
             /\ \A k \in (i + 1)..(j - 1) :
                  attempts[k].account.id = attempts[i].account.id => ~HandedOff(k) )
           => ExtrinsicOf(j).signature[1].nonce = ExtrinsicOf(i).signature[1].nonce

\* C2 witness: a rejected hand-off followed by another hand-off for the same
\* account in the same call.
C2_Witness ==
  /\ Signed
  /\ Len(attempts) = 2
  /\ attempts[1].account.id = attempts[2].account.id
  /\ HandedOff(1) /\ ~HandOffOf(1).accepted
  /\ HandedOff(2)

\* C3: when create_transaction declines for an account, the account gets no
\* result, nothing is handed to the inclusion queue for it and no stored nonce
\* changes; when it declines for every account of a call, for_all returns the
\* empty sequence, for_any returns None and the queue was never called.
C3_DeclinedConstruction ==
  /\ \A i \in 1..Len(attempts) :
       (Signed /\ ~attempts[i].env.hookOk) =>
         /\ attempts[i].res = None
         /\ ~HandedOff(i)
         /\ attempts[i].changed = {}
  /\ ( /\ Signed
       /\ pc = "done"
       /\ \A i \in 1..Len(attempts) : ~attempts[i].env.hookOk )
     => /\ ret = <<>>
        /\ handoffs = <<>>
        /\ nonce = entry

\* C3 witness: a finished call over two accounts in which the hook declined both.
C3_Witness ==
  /\ Signed
  /\ pc = "done"
  /\ Len(attempts) = 2
  /\ \A i \in 1..2 : ~attempts[i].env.hookOk

ForAll == signer.kind = "ForAll"
ForAny == signer.kind = "ForAny"
Last == attempts[Len(attempts)]

\* The operation failed for the account of the i-th application: it yielded no
\* result (key unavailable, payload declined) or the queue rejected its hand-off.
Failed(i) == attempts[i].res = None \/ (HandedOff(i) /\ ~HandOffOf(i).accepted)

\* The applications of the operation follow the enumeration: the i-th is for
\* the i-th enumerated key, at index i - 1.
InEnumerationOrder ==
  /\ Len(attempts) <= Len(enum)
  /\ \A i \in 1..Len(attempts) :
       /\ attempts[i].account.index = i - 1
       /\ attempts[i].account.public = enum[i]

\* C4 as claimed: a selector call ends before the end of the enumeration only
\* after an account for which the operation succeeded; no failure, a failed
\* hand-off included, ends it.
C4_Original ==
  pc = "done" =>
    \/ Len(attempts) = Len(enum)
    \/ (Len(attempts) >= 1 /\ ~Failed(Len(attempts)))

\* C4, amended: the operation is applied in enumeration order; for_all applies
\* it to every enumerated account whatever the outcomes; for_any goes on past
\* every account that yields no result (key unavailable, payload declined) and
\* ends at the first account that yields a result, which a failed hand-off
\* (Some(Err)) is: it is returned for that account and no later account is tried.
C4_FailuresAreLocal ==
  /\ InEnumerationOrder
  /\ pc = "running" => Len(attempts) = pos
  /\ (pc = "done" /\ ForAll) => Len(attempts) = Len(enum)
  /\ ForAny => \A i \in 1..(Len(attempts) - 1) : attempts[i].res = None
  /\ (pc = "done" /\ ForAny) =>
       \/ Len(attempts) = Len(enum) /\ \A i \in 1..Len(attempts) : attempts[i].res = None
       \/ Len(attempts) >= 1 /\ Last.res # None
  /\ (pc # "idle" /\ ForAny /\ Len(attempts) >= 1 /\ Last.res = Some(Err)) =>
       /\ pc = "done"
       /\ ret = Some(<<Last.account, Err>>)

\* C4 witness: for_any went past an account whose construction was declined,
\* reached the next account, and returned its failed hand-off.
C4_Witness ==
  /\ ForAny
  /\ Signed
  /\ pc = "done"
  /\ Len(attempts) = 2
  /\ ~attempts[1].env.hookOk
  /\ HandedOff(2)
  /\ ret = Some(<<attempts[2].account, Err>>)

C6_ForAllSignsEveryKey ==
  (pc = "done" /\ ForAll /\ signer.accounts = None /\ op.name = "sign_message") =>
    /\ Len(ret) = Len(keystore)
    /\ \A i \in 1..Len(ret) :
         /\ ret[i][1].public = keystore[i]
         /\ ret[i][1].id = into_account(keystore[i])
         /\ SigningTypes_verify(op.msg, ret[i][1].public, ret[i][2])
         /\ \A m \in Msgs \ {op.msg} : ~SigningTypes_verify(m, ret[i][1].public, ret[i][2])

\* C6 witness: two registered keys, two verified signatures returned.
C6_Witness ==
  /\ pc = "done"
  /\ ForAll
  /\ signer.accounts = None
  /\ op.name = "sign_message"
  /\ Len(keystore) = 2
  /\ Len(ret) = 2

\* The (account, result) pairs of the applications that yielded a result.
RECURSIVE Kept(_)
Kept(log) ==
  IF log = <<>> THEN <<>>
  ELSE LET rest == Kept(SubSeq(log, 1, Len(log) - 1))
           t == log[Len(log)]
       IN IF t.res = None THEN rest ELSE Append(rest, <<t.account, t.res[1]>>)

\* C7: all_accounts applies the operation exactly once to every enumerated
\* account, in enumeration order; the accounts with no result are dropped and
\* the returned pairs are those of the other accounts, in enumeration order.
C7_ForAllSubsequence ==
  ForAll =>
    /\ InEnumerationOrder
    /\ pc = "running" => Len(attempts) = pos
    /\ results = Kept(attempts)
    /\ pc = "done" =>
         /\ Len(attempts) = Len(enum)
         /\ ret = Kept(attempts)
         /\ \A i \in 1..Len(ret) : \A j \in 1..Len(ret) :
              i < j => ret[i][1].index < ret[j][1].index

\* C7 witness: of two enumerated accounts the first was dropped and the second
\* returned.
C7_Witness ==
  /\ ForAll
  /\ pc = "done"
  /\ Len(attempts) = 2
  /\ attempts[1].res = None
  /\ Len(ret) = 1
  /\ ret[1][1].index = 1

\* The keys of the filter the signer was narrowed to.
FilterKeys == Range(signer.accounts[1])

\* The unsigned call of an extrinsic carries a payload of this public key.
CarriesPayloadOf(xt, key) ==
  xt.signature = None /\ xt.call.inner.payload.public = key

\* C8: with a filter, the operation is applied to, and results are returned
\* for, accounts of the filter's keys only, in the filter's order; a key outside
\* the filter gets no result, no hand-off and no nonce change, registered with
\* the key-holder or not.
C8_FilterRestricts ==
  (signer.accounts # None /\ pc # "idle") =>
    /\ enum = signer.accounts[1]
    /\ InEnumerationOrder
    /\ \A i \in 1..Len(attempts) : attempts[i].account.public \in FilterKeys
    /\ \A i \in 1..Len(results) : results[i][1].public \in FilterKeys
    /\ \A i \in 1..Len(ret) : ret[i][1].public \in FilterKeys
    /\ \A b \in Keys \ FilterKeys :
         /\ nonce[into_account(b)] = entry[into_account(b)]
         /\ \A h \in 1..Len(handoffs) :
              LET xt == Decode(handoffs[h].bytes)
              IN IF xt.signature = None
                 THEN ~CarriesPayloadOf(xt, b)
                 ELSE xt.signature[1].public # b /\ xt.signature[1].signer # into_account(b)

\* C8 witness: a signed submission through a filter of one key was accepted
\* while another key was registered with the key-holder.
C8_Witness ==
  /\ signer.accounts # None
  /\ Signed
  /\ pc = "done"
  /\ Len(enum) = 1
  /\ Range(keystore) \ FilterKeys # {}
  /\ Len(handoffs) = 1
  /\ handoffs[1].accepted

\* C9: while send_unsigned_transaction runs and when it has returned, every
\* account's stored nonce is what it was when the call began, whether the
\* hand-offs were accepted or rejected.
C9_UnsignedKeepsNonces ==
  Unsigned =>
    /\ nonce = entry
    /\ \A i \in 1..Len(attempts) :
         attempts[i].changed = {} /\ attempts[i].after = attempts[i].before

\* C9 witness: an unsigned submission over two accounts, one hand-off accepted
\* and one rejected.
C9_Witness ==
  /\ Unsigned
  /\ pc = "done"
  /\ Len(handoffs) = 2
  /\ handoffs[1].accepted
  /\ ~handoffs[2].accepted

\* The key-holder can sign for the account of the i-th application.
CanSign(i) == attempts[i].account.public \in Range(keystore)

\* C10 as claimed: in send_unsigned_transaction a failed signing gives no
\* result and no hand-off; a successful signing hands off exactly one unsigned
\* transaction, and a rejection by the queue is the account's Err.
C10_Original ==
  \A i \in 1..Len(attempts) :
    Unsigned =>
      /\ ~CanSign(i) => (attempts[i].res = None /\ ~HandedOff(i))
      /\ CanSign(i) =>
           /\ attempts[i].h1 = attempts[i].h0 + 1
           /\ ExtrinsicOf(i).signature = None
           /\ ~HandOffOf(i).accepted => attempts[i].res = Some(Err)

\* C10, amended: in send_unsigned_transaction a failed signing gives no result
\* and no hand-off; a successful signing gives a result and hands off exactly
\* one unsigned transaction, carrying the payload and its signature, when the
\* extrinsic can be constructed, and none (with the result Err) when it cannot;
\* the queue's rejection is the account's Err and its acceptance the account's Ok.
C10_UnsignedHandOff ==
  \A i \in 1..Len(attempts) :
    Unsigned =>
      /\ ~CanSign(i) => (attempts[i].res = None /\ ~HandedOff(i))
      /\ CanSign(i) =>
           /\ attempts[i].res # None
           /\ IF attempts[i].env.xtOk
              THEN /\ attempts[i].h1 = attempts[i].h0 + 1
                   /\ ExtrinsicOf(i).signature = None
                   /\ LET call == ExtrinsicOf(i).call.inner
                      IN /\ call.payload = payload_builder(attempts[i].account, op.msg)
                         /\ SignedPayload_verify(call.payload, call.signature)
                   /\ attempts[i].res = Some(IF HandOffOf(i).accepted THEN Ok ELSE Err)
              ELSE /\ ~HandedOff(i)
                   /\ attempts[i].res = Some(Err)

\* C10 witness: signing failed for the first account, which has no result and
\* no hand-off; the second account's transaction was handed off and rejected.
C10_Witness ==
  /\ Unsigned
  /\ Len(attempts) = 2
  /\ ~CanSign(1)
  /\ attempts[1].res = None
  /\ HandedOff(2)
  /\ ~HandOffOf(2).accepted
  /\ attempts[2].res = Some(Err)

\* C12: any_account returns None, a value and not an error, exactly when the
\* operation yielded no result for every enumerated account (an empty
\* enumeration included); the operation was then applied once to every
\* enumerated account, in enumeration order.
C12_ExhaustionIsNone ==
  (ForAny /\ pc = "done") =>
    /\ ret = None <=>
         /\ Len(attempts) = Len(enum)
         /\ \A i \in 1..Len(attempts) : attempts[i].res = None
    /\ ret = None => InEnumerationOrder
    /\ ret # None => ret = Some(<<Last.account, Last.res[1]>>)

\* C12 witness: any_account went through two enumerated accounts, the operation
\* yielded nothing for either, and None came back.
C12_Witness ==
  /\ ForAny
  /\ pc = "done"
  /\ Len(enum) = 2
  /\ Len(attempts) = 2
  /\ \A i \in 1..2 : attempts[i].res = None
  /\ ret = None

\* The payloads a caller's builder can produce.
Payloads == {[public |-> k, data |-> m] : k \in Keys, m \in Msgs}

\* C13: for a payload whose key the key-holder holds, SignedPayload::sign gives
\* a signature over the payload's encoding under payload.public() which
\* SignedPayload::verify accepts on the same payload and rejects on every
\* payload whose encoding differs.
C13_SignVerifyRoundTrip ==
  op.name = "sign" =>
    \A i \in 1..Len(attempts) :
      LET payload == payload_builder(attempts[i].account, op.msg)
      IN SignedPayload_public(payload) \in Range(keystore) =>
           /\ attempts[i].res # None
           /\ Signature_into(attempts[i].res[1]).over = Encode(payload)
           /\ Signature_into(attempts[i].res[1]).signer
                = Generic_from(SignedPayload_public(payload))
           /\ SignedPayload_verify(payload, attempts[i].res[1])
           /\ \A other \in Payloads :
                Encode(other) # Encode(payload) =>
                  ~SignedPayload_verify(other, attempts[i].res[1])

\* C13 witness: sign was applied to an account whose key the key-holder holds
\* and produced a signature, with a second key registered as well.
C13_Witness ==
  /\ op.name = "sign"
  /\ Len(attempts) >= 1
  /\ attempts[1].account.public \in Range(keystore)
  /\ attempts[1].res # None
  /\ Len(keystore) = 2

\* C16: on the signed and the unsigned submission path each application of the
\* operation calls the inclusion queue's submit at most once, whatever the
\* queue answers; over one call the hand-offs are at most as many as the
\* applications, which are at most as many as the enumerated accounts; under
\* ForAny at most one hand-off is made, so at most one is accepted.
C16_NoRetry ==
  (Signed \/ Unsigned) =>
    /\ \A i \in 1..Len(attempts) :
         /\ attempts[i].h1 \in {attempts[i].h0, attempts[i].h0 + 1}
         /\ attempts[i].h0 = IF i = 1 THEN 0 ELSE attempts[i - 1].h1
         /\ (HandedOff(i) /\ ~HandOffOf(i).accepted) => attempts[i].res = Some(Err)
    /\ InEnumerationOrder
    /\ Len(attempts) >= 1 => Len(handoffs) = Last.h1
    /\ Len(handoffs) <= Len(attempts)
    /\ Len(handoffs) <= Len(enum)
    /\ ForAny => Len(handoffs) <= 1
    /\ ForAny => Cardinality({h \in 1..Len(handoffs) : handoffs[h].accepted}) <= 1

\* C16 witness: a finished all_accounts call over two different accounts; the
\* queue rejected the first account's hand-off, and exactly one hand-off was
\* made for each account.
C16_Witness ==
  /\ ForAll
  /\ pc = "done"
  /\ Signed \/ Unsigned
  /\ Len(attempts) = 2
  /\ attempts[1].account.id # attempts[2].account.id
  /\ HandedOff(1)
  /\ ~HandOffOf(1).accepted
  /\ HandedOff(2)
  /\ Len(handoffs) = 2

\* The account is the one built for the key at 0-based position index of the
\* current selection.
AccountOfSelection(account) ==
  /\ account.index \in 0..(Len(enum) - 1)
  /\ account.public = enum[account.index + 1]
  /\ account.id = into_account(account.public)

\* The accounts a selector call has returned (for_all's are those collected).
Returned ==
  IF ForAll
  THEN [i \in 1..Len(results) |-> results[i][1]]
  ELSE IF pc = "done" /\ ret # None THEN <<ret[1][1]>> ELSE <<>>

\* C17: every Account handed to the operation or returned by a selector has as
\* index the 0-based position of its key in the current selection and as id
\* the address derived from its public key; the i-th application gets position
\* i - 1; the indices of the accounts for_all returns are strictly increasing.
C17_AccountIndex ==
  pc # "idle" =>
    /\ \A i \in 1..Len(attempts) :
         /\ AccountOfSelection(attempts[i].account)
         /\ attempts[i].account.index = i - 1
    /\ \A i \in 1..Len(Returned) :
         /\ AccountOfSelection(Returned[i])
         /\ \E j \in 1..Len(attempts) : attempts[j].account = Returned[i]
    /\ \A i, j \in 1..Len(Returned) :
         i < j => Returned[i].index < Returned[j].index
    /\ (ForAll /\ pc = "done") => ret = results

\* C17 witness: all_accounts over a filter of two different keys of which the
\* key-holder holds only the second; the one returned account has index 1.
C17_Witness ==
  /\ ForAll
  /\ pc = "done"
  /\ Len(enum) = 2
  /\ enum[1] # enum[2]
  /\ Len(attempts) = 2
  /\ attempts[1].res = None
  /\ Len(ret) = 1
  /\ ret[1][1].index = 1
  /\ ret[1][1].public = enum[2]

\* The call in progress is a later call on a Signer value without a filter, and
\* the key-holder's keys are not those the previous call enumerated.
KeysChangedSinceLastCall ==
  /\ signer.accounts = None
  /\ pc # "idle"
  /\ prev # None
  /\ prev[1] # keystore

\* The public keys of the accounts the operation was applied to.
AttemptedKeys == {attempts[i].account.public : i \in 1..Len(attempts)}

\* C18 as claimed: when keys were added or removed between two calls on the
\* same Signer without a filter, the accounts the second call attempted are
\* exactly the key-holder's key set at the second call.
C18_Original ==
  (KeysChangedSinceLastCall /\ pc = "done") => AttemptedKeys = Range(keystore)

\* C18, amended: without a filter every selector call enumerates the keys the
\* key-holder holds at that call, whatever an earlier call on the same Signer
\* enumerated, and builds each account afresh from them; all_accounts attempts
\* every one of them, any_account attempts them in order up to the first
\* account that yields a result.
C18_FreshEnumeration ==
  (signer.accounts = None /\ pc # "idle") =>
    /\ enum = keystore
    /\ Len(attempts) <= Len(keystore)
    /\ \A i \in 1..Len(attempts) :
         attempts[i].account
           = Account_new(i - 1, into_account(keystore[i]), keystore[i])
    /\ (pc = "done" /\ ForAll) => AttemptedKeys = Range(keystore)
    /\ (pc = "done" /\ ForAny) =>
         \/ AttemptedKeys = Range(keystore)
         \/ Len(attempts) >= 1 /\ Last.res # None

\* C18 witness: a second all_accounts call on the same Signer, after one key
\* was removed from and another added to the key-holder, attempted the new key.
C18_Witness ==
  /\ KeysChangedSinceLastCall
  /\ ForAll
  /\ pc = "done"
  /\ Len(prev[1]) = 1
  /\ Len(keystore) = 1
  /\ Len(attempts) = 1
  /\ attempts[1].account.public = keystore[1]

\* The calls of the backend's record that are sign_with / supported_keys calls
\* on the remote signer.
RemoteSigns == {i \in 1..Len(exchange) :
                  exchange[i].call = "sign_with" /\ exchange[i].on = "remote"}
LocalSigns == {i \in 1..Len(exchange) :
                 exchange[i].call = "sign_with" /\ exchange[i].on = "local"}
KeyListings == {i \in 1..Len(exchange) : exchange[i].call = "supported_keys"}

\* C14: the remote signer's sign_with answers every failed connection and every
\* failed remote call with the one error Unavailable, which is what a key the
\* key-holder does not hold gives; it returns the service's response bytes
\* exactly when connection and call both succeed; it gives no other error and
\* does not abort.
C14_RemoteUnavailable ==
  /\ \A i \in RemoteSigns :
       LET x == exchange[i]
       IN /\ x.res.tag \in {"Ok", "Err"}
          /\ x.res.tag = "Err" => x.res = ErrOf(Unavailable)
          /\ ~x.net.connected => x.res = ErrOf(Unavailable) /\ x.request = None
          /\ (x.net.connected /\ x.net.reply.tag = "Err") => x.res = ErrOf(Unavailable)
          /\ (x.net.connected /\ x.net.reply.tag = "Ok") => x.res = OkOf(x.net.reply.value)
          /\ x.res.tag = "Ok" => x.net.connected /\ x.net.reply = x.res
  /\ \A i \in LocalSigns :
       exchange[i].res.tag = "Err" => exchange[i].res = ErrOf(Unavailable)

\* C14 witness: on one remote signer, a sign_with whose connection failed
\* was followed by one whose connection and call succeeded.
C14_Witness ==
  /\ Len(exchange) = 2
  /\ RemoteSigns = {1, 2}
  /\ ~exchange[1].net.connected
  /\ exchange[1].res = ErrOf(Unavailable)
  /\ exchange[2].net.connected
  /\ exchange[2].res = OkOf("r2")

\* C15: for the local and for the remote key-holder implementation alike,
\* supported_keys(key_type) returns a list of public keys or an unavailable
\* error as a value; the call is never fatal.
C15_SameContract ==
  \A i \in KeyListings :
    \/ exchange[i].res.tag = "Ok" /\ Range(exchange[i].res.value) \subseteq RawKeys
    \/ exchange[i].res = ErrOf(Unavailable)

\* C19: every sign_with of a RemoteSigner constructed with (host, port)
\* connects to the service at that host and port.
C19_ConfiguredEndpoint ==
  \A i \in RemoteSigns :
    exchange[i].endpoint = Endpoint(backend.host, backend.port)

\* C20: the request the remote signer's sign_with sends is determined by
\* (key_type, public_key, message): sign_with calls that differ in any of the
\* three, in the message in particular, send different requests.
C20_RequestCarriesArguments ==
  \A i, j \in RemoteSigns :
    ( /\ exchange[i].request # None
      /\ exchange[j].request # None
      /\ <<exchange[i].id, exchange[i].key, exchange[i].msg>>
           # <<exchange[j].id, exchange[j].key, exchange[j].msg>> )
    => exchange[i].request # exchange[j].request

\* C21: a selector narrowed with the empty list does not fall back to the
\* key-holder's keys: the operation is not invoked, for_all returns the empty
\* sequence, for_any returns None, nothing is handed off and no nonce changes;
\* and a with_filter applied to a selector that already has a filter replaces
\* the list, so that a call enumerates the last list only.
C21_EmptyFilter ==
  /\ (signer.accounts = Some(<<>>) /\ pc # "idle") =>
       /\ enum = <<>>
       /\ attempts = <<>>
       /\ results = <<>>
       /\ handoffs = <<>>
       /\ nonce = entry
       /\ pc = "done" => ret = IF ForAll THEN <<>> ELSE None
  /\ (signer.accounts # None /\ pc # "idle") =>
       /\ enum = signer.accounts[1]
       /\ \A i \in 1..Len(attempts) :
            attempts[i].account.public = signer.accounts[1][i]
  /\ \A last \in SeqsUpTo(Keys, 1) :
       LET again == with_filter(signer, last)
       IN /\ again.accounts = Some(last)
          /\ enumeration(again) = last
          /\ again.kind = signer.kind

\* C21 witness: a filter was replaced by the empty list on the same selector
\* while the key-holder held keys, and a send_signed_transaction call on it
\* finished without having applied the operation.
C21_Witness ==
  /\ refiltered
  /\ signer.accounts = Some(<<>>)
  /\ keystore # <<>>
  /\ Signed
  /\ pc = "done"
  /\ attempts = <<>>
  /\ ret = <<>>

\* C22: one submit_signed_transaction for an account changes no stored nonce
\* but that account's, and that one by exactly +1 or not at all; every other
\* account's stored nonce is as it was before the call; and no step of a pass
\* ever lowers an account's stored nonce.
C22_NonceFrame ==
  /\ [](Signed =>
          \A i \in 1..Len(attempts) :
            /\ attempts[i].changed \subseteq {attempts[i].account.id}
            /\ attempts[i].after \in {attempts[i].before, attempts[i].before + 1}
            /\ attempts[i].after = attempts[i].before + 1
                 <=> (HandedOff(i) /\ HandOffOf(i).accepted))
  /\ [](\A a \in AccountIds : nonce[a] >= entry[a] /\ entry[a] >= start[a])
  /\ [][\A a \in AccountIds : nonce'[a] >= nonce[a]]_vars

\* C22 witness: all_accounts sent signed transactions for two different
\* accounts and the queue accepted both; each account's nonce went up by one.
C22_Witness ==
  /\ Signed
  /\ ForAll
  /\ pc = "done"
  /\ Len(attempts) = 2
  /\ attempts[1].account.id # attempts[2].account.id
  /\ attempts[1].changed = {attempts[1].account.id}
  /\ attempts[2].changed = {attempts[2].account.id}
  /\ \A a \in AccountIds : nonce[a] = entry[a] + 1

====
